---- MODULE Spec2Model ----
(***************************************************************************)
(* A model of the paperless summarizer: the summarization entry point      *)
(* (index: processDocumentPages, summarizeText, main) and the cleanup      *)
(* entry point (cleanupNotes: findAndDeleteSummaries,                      *)
(* deleteAiNotesAtDocument, main), run against a document service that     *)
(* keeps documents and their notes.  Texts and URLs are sequences of       *)
(* string tokens; every await of the code is a step boundary.              *)
(***************************************************************************)
EXTENDS Integers, Sequences, FiniteSets, TLC

VARIABLES
    env,              \* process.env of every run
    docs,             \* the document service: id -> [content, notes]
    listing,          \* the pages the service's listing endpoint serves
    streams,          \* the chunk streams the model server may answer with
    files,            \* local summary files written: set of [id, text]
    plan,             \* the invocations still to run
    done,             \* finished runs: [prog, args, exit, err, log]
    cur,              \* the invocation that is running
    pc,               \* where the running process stands
    reqLog,           \* the requests the running process issued, with outcome
    faults,           \* failures the environment injected so far
    nextPage,         \* processDocumentPages / findAndDeleteSummaries: nextPage
    unsummarizedIds,  \* processDocumentPages: unsummarizedIds
    idx,              \* main: position of the for loop over the ids
    content,          \* main: content of the fetched document
    summary,          \* main: the generated summary
    page,             \* findAndDeleteSummaries: the page being processed
    di,               \* findAndDeleteSummaries: position in page.results
    documentId        \* deleteAiNotesAtDocument: documentId

vars == <<env, docs, listing, streams, files, plan, done, cur, pc, reqLog, faults,
          nextPage, unsummarizedIds, idx, content, summary, page, di, documentId>>

----------------------------------------------------------------------------
(* Bounds of the model *)

NumDocs == 2
MaxPages == 2
MaxFaults == 2
MaxRequests == 12

Docs == 1..NumDocs

----------------------------------------------------------------------------
(* Texts: sequences of tokens *)

StartsWith(s, p) ==
    /\ Len(s) >= Len(p)
    /\ SubSeq(s, 1, Len(p)) = p

EndsWith(s, p) ==
    /\ Len(s) >= Len(p)
    /\ SubSeq(s, Len(s) - Len(p) + 1, Len(s)) = p

\* String.prototype.includes
Includes(s, sub) ==
    \E i \in 0..(Len(s) - Len(sub)) : SubSeq(s, i + 1, i + Len(sub)) = sub

Range(s) == {s[i] : i \in DOMAIN s}

RECURSIVE Flatten(_)
Flatten(ss) == IF ss = <<>> THEN <<>> ELSE Head(ss) \o Flatten(Tail(ss))

\* an environment variable that is not set (undefined)
Unset == <<"<unset>">>

\* a ?? b
Coalesce(a, b) == IF a = Unset THEN b ELSE a

Digits == <<"0", "1", "2", "3", "4", "5", "6", "7", "8", "9">>
IsDigit(c) == \E i \in DOMAIN Digits : Digits[i] = c
DigitVal(c) == (CHOOSE i \in DOMAIN Digits : Digits[i] = c) - 1

RECURSIVE DigitsValue(_, _)
\* value of the longest prefix of digits of s, acc the value read so far
DigitsValue(s, acc) ==
    IF s = <<>> \/ ~IsDigit(Head(s)) THEN acc
    ELSE DigitsValue(Tail(s), 10 * acc + DigitVal(Head(s)))

RECURSIVE SkipSpace(_)
SkipSpace(s) == IF s # <<>> /\ Head(s) = " " THEN SkipSpace(Tail(s)) ELSE s

NaN == [nan |-> TRUE, val |-> 0]
Num(n) == [nan |-> FALSE, val |-> n]

\* parseInt(s, 10): leading blanks, an optional sign, the longest prefix of digits
ParseInt(s) ==
    LET t == SkipSpace(s)
        neg == t # <<>> /\ Head(t) = "-"
        u == IF t # <<>> /\ Head(t) \in {"-", "+"} THEN Tail(t) ELSE t
    IN  IF u = <<>> \/ ~IsDigit(Head(u)) THEN NaN
        ELSE Num(IF neg THEN 0 - DigitsValue(u, 0) ELSE DigitsValue(u, 0))

\* Number(s): the whole text must be a number; the unset variable gives NaN
ToNumber(s) ==
    IF s = Unset THEN NaN
    ELSE IF s = <<>> THEN Num(0)
    ELSE IF \A i \in DOMAIN s : IsDigit(s[i]) THEN Num(DigitsValue(s, 0))
    ELSE NaN

\* x || 0 on a number
OrZero(x) == IF x.nan THEN 0 ELSE x.val

----------------------------------------------------------------------------
(* Configuration *)

DefaultMarker == <<"AI_", "SUMMARY">>
DefaultModel == <<"llama3.2">>
DefaultPrompt == <<"Summarize the given text: ">>
DefaultContext == <<"8", "0", "9", "6">>

\* config.ts: CONFIG
CONFIG ==
    [CONTEXT_LENGTH |-> ParseInt(Coalesce(env.CONTEXT_LENGTH, DefaultContext)),
     MODEL_NAME     |-> Coalesce(env.MODEL_NAME, DefaultModel),
     SUMMARY_MARKER |-> Coalesce(env.SUMMARY_MARKER, DefaultMarker),
     SUMMARY_PROMPT |-> Coalesce(env.SUMMARY_PROMPT, DefaultPrompt)]

\* envUtils: getEnvironmentVariables, the values it returns
EnvConfig ==
    [apiKey         |-> Coalesce(env.PAPERLESS_TOKEN, <<>>),
     paperlessUrl   |-> Coalesce(env.PAPERLESS_URL, <<>>),
     saveTxtSummary |-> OrZero(ToNumber(env.OUTPUT_TXT)),
     saveTxtPath    |-> Coalesce(env.OUTPUT_PATH, <<>>)]

\* a validation that looks at the token only
EnvInvalidTokenOnly == EnvConfig.apiKey = <<>>

\* validateEnvironmentVariables throws
EnvInvalid == EnvConfig.apiKey = <<>> \/ EnvConfig.paperlessUrl = <<>>

----------------------------------------------------------------------------
(* JSON.stringify of the configuration, and what a JSON reader accepts *)

\* a serialization that escapes nothing
JsonRawChar(c) == <<c>>

JsonEscapeChar(c) ==
    IF c = "\"" THEN <<"\\", "\"">>
    ELSE IF c = "\\" THEN <<"\\", "\\">>
    ELSE IF c = "\n" THEN <<"\\", "n">>
    ELSE <<c>>

JsonString(s) ==
    <<"\"">> \o Flatten([i \in DOMAIN s |-> JsonEscapeChar(s[i])]) \o <<"\"">>

RECURSIVE NatDigits(_)
\* the decimal digits of a natural number
NatDigits(n) ==
    IF n < 10 THEN <<Digits[n + 1]>>
    ELSE NatDigits(n \div 10) \o <<Digits[(n % 10) + 1]>>

\* a number is written in decimal, NaN as null
JsonNumber(x) ==
    IF x.nan THEN <<"null">>
    ELSE IF x.val < 0 THEN <<"-">> \o NatDigits(0 - x.val)
    ELSE NatDigits(x.val)

JsonStringify(cfg) ==
    <<"{">> \o JsonString(<<"CONTEXT_LENGTH">>) \o <<":">> \o JsonNumber(cfg.CONTEXT_LENGTH)
    \o <<",">> \o JsonString(<<"MODEL_NAME">>) \o <<":">> \o JsonString(cfg.MODEL_NAME)
    \o <<",">> \o JsonString(<<"SUMMARY_MARKER">>) \o <<":">> \o JsonString(cfg.SUMMARY_MARKER)
    \o <<",">> \o JsonString(<<"SUMMARY_PROMPT">>) \o <<":">> \o JsonString(cfg.SUMMARY_PROMPT)
    \o <<"}">>

RECURSIVE ScanJsonString(_, _)
\* t[i..] continues a JSON string: the index after its closing quote, 0 if it is
\* not closed or holds a raw control character or a bad escape
ScanJsonString(t, i) ==
    IF i > Len(t) THEN 0
    ELSE IF t[i] = "\"" THEN i + 1
    ELSE IF t[i] = "\n" THEN 0
    ELSE IF t[i] = "\\" THEN
        IF i + 1 <= Len(t) /\ t[i + 1] \in {"\"", "\\", "n"}
        THEN ScanJsonString(t, i + 2) ELSE 0
    ELSE ScanJsonString(t, i + 1)

RECURSIVE ScanJsonDigits(_, _)
ScanJsonDigits(t, i) ==
    IF i <= Len(t) /\ IsDigit(t[i]) THEN ScanJsonDigits(t, i + 1) ELSE i

\* the index after the JSON value that starts at t[i], 0 if there is none
ScanJsonValue(t, i) ==
    IF i > Len(t) THEN 0
    ELSE IF t[i] = "\"" THEN ScanJsonString(t, i + 1)
    ELSE IF t[i] = "null" THEN i + 1
    ELSE IF IsDigit(t[i]) THEN ScanJsonDigits(t, i)
    ELSE IF t[i] = "-" /\ i + 1 <= Len(t) /\ IsDigit(t[i + 1]) THEN ScanJsonDigits(t, i + 1)
    ELSE 0

RECURSIVE ScanJsonMembers(_, _)
\* t[i..] is  "key":value  followed by  ,member...  or by the closing brace
ScanJsonMembers(t, i) ==
    LET k == IF i <= Len(t) /\ t[i] = "\"" THEN ScanJsonString(t, i + 1) ELSE 0
        v == IF k # 0 /\ k <= Len(t) /\ t[k] = ":" THEN ScanJsonValue(t, k + 1) ELSE 0
    IN  IF v = 0 \/ v > Len(t) THEN 0
        ELSE IF t[v] = "}" THEN v + 1
        ELSE IF t[v] = "," THEN ScanJsonMembers(t, v + 1)
        ELSE 0

\* JSON.parse accepts t as one object
IsValidJson(t) ==
    /\ Len(t) >= 2
    /\ t[1] = "{"
    /\ IF t[2] = "}" THEN Len(t) = 2 ELSE ScanJsonMembers(t, 2) = Len(t) + 1

----------------------------------------------------------------------------
(* URLs *)

\* the address the document service answers on
ServiceUrl == <<"http://", "paperless">>
\* an address of another host
ForeignUrl == <<"http://", "evil", "/documents/?ordering=-id">>

\* `${baseUrl}/documents/?ordering=-id`
SeedUrl(baseUrl) == baseUrl \o <<"/documents/?ordering=-id">>

\* the `next` link the service gives for page k (page 1 is the seed)
PageUrl(k) == SeedUrl(ServiceUrl) \o [i \in 1..(k - 1) |-> "&page+1"]

\* `${baseUrl}/documents/${id}/`
DocumentUrl(baseUrl, id) == baseUrl \o <<"/documents/", ToString(id), "/">>

\* a note written to the document itself
NotesUrlOfDocument(baseUrl, id) == baseUrl \o <<"/documents/", ToString(id), "/">>

\* `${baseUrl}/documents/${id}/notes/`
NotesUrl(baseUrl, id) == baseUrl \o <<"/documents/", ToString(id), "/notes/">>

\* deleteComment: the notes URL with the query parameter id
DeleteUrl(baseUrl, id, noteId) == NotesUrl(baseUrl, id) \o <<"?id=", ToString(noteId)>>

----------------------------------------------------------------------------
(* The document service *)

\* a document's notes field: absent, an array of notes, or present and no array
AbsentNotes == [kind |-> "absent", items |-> <<>>]
BadNotes == [kind |-> "bad", items |-> <<>>]
ArrayNotes(items) == [kind |-> "array", items |-> items]

\* a note with a text, and a note without the note field
Note(id, text) == [id |-> id, hasText |-> TRUE, note |-> text]
NoTextNote(id) == [id |-> id, hasText |-> FALSE, note |-> <<>>]

EmptyPage == [results |-> "array", items |-> <<>>, next |-> <<>>]

\* a listed document: entry 0 is a document without an id
ListedDocument(e) ==
    IF e = 0 THEN [id |-> 0, notes |-> AbsentNotes]
    ELSE [id |-> e, notes |-> docs[e].notes]

\* the body the service sends for page k of the listing
PageBody(k) ==
    [results |-> listing[k].results,
     items   |-> [i \in DOMAIN listing[k].entries |-> ListedDocument(listing[k].entries[i])],
     next    |-> listing[k].next]

\* the page a listing URL names, 0 if none
PageIndex(u) ==
    IF \E k \in DOMAIN listing : PageUrl(k) = u
    THEN CHOOSE k \in DOMAIN listing : PageUrl(k) = u
    ELSE 0

\* the document a single-document URL names, 0 if none
DocumentIndex(u) ==
    IF \E d \in Docs : DocumentUrl(ServiceUrl, d) = u
    THEN CHOOSE d \in Docs : DocumentUrl(ServiceUrl, d) = u
    ELSE 0

CanFault == faults < MaxFaults

Outcome(status, body, fault) == [status |-> status, body |-> body, fault |-> fault]

\* what a GET of a listing URL may answer: the page, a non-success status, a body
\* that is no JSON; another host answers what it likes
ListingOutcomes(u) ==
    (IF PageIndex(u) # 0 THEN {Outcome("ok", PageBody(PageIndex(u)), FALSE)}
     ELSE IF StartsWith(u, ServiceUrl) THEN {Outcome("fail", EmptyPage, FALSE)}
     ELSE {Outcome("ok", EmptyPage, FALSE), Outcome("fail", EmptyPage, FALSE)})
    \cup (IF CanFault /\ PageIndex(u) # 0
          THEN {Outcome("fail", EmptyPage, TRUE), Outcome("badjson", EmptyPage, TRUE)}
          ELSE {})

\* what a GET of a single document may answer
DocumentOutcomes(u) ==
    (IF DocumentIndex(u) # 0
     THEN {Outcome("ok", docs[DocumentIndex(u)].content, FALSE)}
     ELSE {Outcome("fail", <<>>, FALSE)})
    \cup (IF CanFault /\ DocumentIndex(u) # 0 THEN {Outcome("fail", <<>>, TRUE)} ELSE {})

\* what a write (POST or DELETE of a note) may answer
WriteOutcomes ==
    {Outcome("ok", <<>>, FALSE)}
    \cup (IF CanFault THEN {Outcome("fail", <<>>, TRUE)} ELSE {})

NoteIds(items) == {items[i].id : i \in DOMAIN items}

NewNoteId(items) ==
    IF items = <<>> THEN 1
    ELSE 1 + (CHOOSE m \in NoteIds(items) : \A n \in NoteIds(items) : n <= m)

\* the service stores a posted note
StoreNote(d, text) ==
    [docs EXCEPT ![d].notes =
        ArrayNotes(@.items \o <<Note(NewNoteId(@.items), text)>>)]

\* the service removes the note with the given id, if the document has it
RemoveNote(d, noteId) ==
    [docs EXCEPT ![d].notes =
        [kind |-> @.kind, items |-> SelectSeq(@.items, LAMBDA n : n.id # noteId)]]

----------------------------------------------------------------------------
(* Requests *)

Request(method, url, body) ==
    [method |-> method, url |-> url, body |-> body, auth |-> TRUE, status |-> "pending"]

Pending == {i \in DOMAIN reqLog : reqLog[i].status = "pending"}
CanIssue(n) == Len(reqLog) + n <= MaxRequests

\* the request the process awaits
Awaited == reqLog[Len(reqLog)]

NoRun == [prog |-> "none", args |-> <<>>]

\* the process ends: completed (main resolved), caught (main rejected and
\* main().catch(console.error) logged it), uncaught (thrown at module level)
Finish(exit, err) ==
    /\ pc' = "idle"
    /\ cur' = NoRun
    /\ done' = Append(done, [prog |-> cur.prog, args |-> cur.args,
                             exit |-> exit, err |-> err, log |-> reqLog'])

----------------------------------------------------------------------------
(* The summarization entry point *)

\* a comparison of the whole text in place of includes
NoteEqualsMarker(n, marker) == n.hasText /\ n.note = marker

\* note.note?.includes(CONFIG.SUMMARY_MARKER)
NoteHasMarker(n, marker) == n.hasText /\ Includes(n.note, marker)

\* the test without its first disjunct, !notes
IsUnsummarizedArrayOnly(d, marker) ==
    /\ d.notes.kind = "array"
    /\ ~\E i \in DOMAIN d.notes.items : NoteHasMarker(d.notes.items[i], marker)

\* !notes || !notes.some(note => note.note?.includes(CONFIG.SUMMARY_MARKER))
IsUnsummarized(d, marker) ==
    \/ d.notes.kind = "absent"
    \/ ~\E i \in DOMAIN d.notes.items : NoteHasMarker(d.notes.items[i], marker)

\* notes.some is no function when notes is present and no array: a TypeError
ScanThrows(results) ==
    \E i \in DOMAIN results : results[i].id # 0 /\ results[i].notes.kind = "bad"

RECURSIVE CollectIdsUnshift(_, _)
\* the loop with unshift in place of push
CollectIdsUnshift(results, marker) ==
    IF results = <<>> THEN <<>>
    ELSE CollectIdsUnshift(Tail(results), marker)
         \o (IF Head(results).id # 0 /\ IsUnsummarized(Head(results), marker)
             THEN <<Head(results).id>> ELSE <<>>)

RECURSIVE CollectIds(_, _)
\* the for loop over page.results: the ids it pushes, in order
CollectIds(results, marker) ==
    IF results = <<>> THEN <<>>
    ELSE (IF Head(results).id # 0 /\ IsUnsummarized(Head(results), marker)
          THEN <<Head(results).id>> ELSE <<>>)
         \o CollectIds(Tail(results), marker)

RECURSIVE SummarizeParts(_, _, _, _)
\* for await (const part of summary): summarizedText += part.response, and
\* process.stdout.write(part.response) if display
SummarizeParts(parts, display, summarizedText, stdout) ==
    IF parts = <<>> THEN [summarizedText |-> summarizedText, stdout |-> stdout]
    ELSE SummarizeParts(Tail(parts), display, summarizedText \o Head(parts),
                        IF display THEN stdout \o Head(parts) ELSE stdout)

RECURSIVE DropRepeated(_)
\* the parts without a part that repeats the part before it
DropRepeated(parts) ==
    IF Len(parts) < 2 THEN parts
    ELSE IF parts[1] = parts[2] THEN DropRepeated(Tail(parts))
    ELSE <<Head(parts)>> \o DropRepeated(Tail(parts))

\* a reader of the stream that drops a repeated part
SummarizeTextDeduplicating(chunks, display) ==
    SummarizeParts(DropRepeated(chunks), display, <<>>, <<>>)

\* summarizeText: what it returns and what it wrote to standard output, for
\* the stream of parts the model server answers with
SummarizeText(chunks, display) == SummarizeParts(chunks, display, <<>>, <<>>)

\* `${CONFIG.SUMMARY_PROMPT} ${text}`
Prompt(text) == CONFIG.SUMMARY_PROMPT \o <<" ">> \o text

\* the note without its last line
ComposeNoteNoMarker(text, cfg) ==
    text \o <<"\n", "\n", "Model-Configuration:">> \o JsonStringify(cfg) \o <<"\n">>

\* `${summary}\n\nModel-Configuration:${JSON.stringify(CONFIG)}\n${CONFIG.SUMMARY_MARKER}`
ComposeNote(text, cfg) ==
    text \o <<"\n", "\n", "Model-Configuration:">> \o JsonStringify(cfg)
         \o <<"\n">> \o cfg.SUMMARY_MARKER

OllamaUrl == <<"ollama">>

\* streams of response chunks
SummaryStream == << <<"Sum">>, <<"mary">> >>
RepeatStream == << <<"ab">>, <<"ab">> >>

GenerationOutcomes ==
    {Outcome("ok", c, FALSE) : c \in streams}
    \cup (IF CanFault THEN {Outcome("fail", <<>>, TRUE)} ELSE {})

\* writeFileSync succeeds or throws
FileOutcomes ==
    IF EnvConfig.saveTxtSummary = 0 THEN {"skipped"}
    ELSE {"written"} \cup (IF CanFault THEN {"failed"} ELSE {})

\* the document a notes URL names, 0 if none
NotesIndex(u) ==
    IF \E d \in Docs : NotesUrl(ServiceUrl, d) = u
    THEN CHOOSE d \in Docs : NotesUrl(ServiceUrl, d) = u
    ELSE 0

Settled(status) == [reqLog EXCEPT ![Len(reqLog)].status = status]

sumLocals == <<nextPage, unsummarizedIds, idx, content, summary>>
cleanLocals == <<page, di, documentId>>
world == <<env, listing, streams>>

\* node index: main() up to the first request of processDocumentPages
SumStart ==
    /\ pc = "idle"
    /\ plan # <<>>
    /\ Head(plan).prog = "summarize"
    /\ plan' = Tail(plan)
    /\ reqLog' = <<>>
    /\ unsummarizedIds' = <<>>
    /\ idx' = 1
    /\ content' = <<>>
    /\ summary' = <<>>
    /\ IF EnvInvalid
       THEN /\ pc' = "idle"
            /\ cur' = NoRun
            /\ nextPage' = <<>>
            /\ done' = Append(done, [prog |-> "summarize", args |-> Head(plan).args,
                                     exit |-> "caught", err |-> "ConfigurationError",
                                     log |-> <<>>])
       ELSE /\ pc' = "sScanFetch"
            /\ cur' = Head(plan)
            /\ nextPage' = SeedUrl(EnvConfig.paperlessUrl)
            /\ done' = done
    /\ UNCHANGED <<world, docs, files, faults, cleanLocals>>

\* processDocumentPages: fetch(nextPage, {headers})
ScanFetch ==
    /\ pc = "sScanFetch"
    /\ CanIssue(1)
    /\ reqLog' = Append(reqLog, Request("GET", nextPage, <<>>))
    /\ pc' = "sScanAwait"
    /\ UNCHANGED <<world, docs, files, plan, done, cur, faults, sumLocals, cleanLocals>>

\* a scan that returns the ids found so far when a page request fails
ScanResponsePartial ==
    /\ pc = "sScanAwait"
    /\ \E r \in ListingOutcomes(Awaited.url) :
        /\ reqLog' = Settled(r.status)
        /\ faults' = IF r.fault THEN faults + 1 ELSE faults
        /\ IF r.status # "ok"
           THEN /\ pc' = "sLoop"
                /\ UNCHANGED <<cur, done, nextPage, unsummarizedIds>>
           ELSE IF r.body.results = "missing"
           THEN /\ pc' = "sScanFetch"
                /\ UNCHANGED <<cur, done, nextPage, unsummarizedIds>>
           ELSE IF ScanThrows(r.body.items)
           THEN /\ Finish("caught", "TypeError")
                /\ UNCHANGED <<nextPage, unsummarizedIds>>
           ELSE /\ unsummarizedIds' =
                      unsummarizedIds \o CollectIds(r.body.items, CONFIG.SUMMARY_MARKER)
                /\ IF r.body.next = <<>>
                   THEN pc' = "sLoop" /\ nextPage' = nextPage
                   ELSE pc' = "sScanFetch" /\ nextPage' = r.body.next
                /\ UNCHANGED <<cur, done>>
    /\ UNCHANGED <<world, docs, files, plan, idx, content, summary, cleanLocals>>

\* a scan that hands its ids to the loop after every page, next or no next
ScanResponsePerPage ==
    /\ pc = "sScanAwait"
    /\ \E r \in ListingOutcomes(Awaited.url) :
        /\ reqLog' = Settled(r.status)
        /\ faults' = IF r.fault THEN faults + 1 ELSE faults
        /\ IF r.status # "ok"
           THEN /\ Finish("caught", IF r.status = "fail" THEN "RequestError" ELSE "SyntaxError")
                /\ UNCHANGED <<nextPage, unsummarizedIds>>
           ELSE IF r.body.results = "missing"
           THEN /\ pc' = "sScanFetch"
                /\ UNCHANGED <<cur, done, nextPage, unsummarizedIds>>
           ELSE IF ScanThrows(r.body.items)
           THEN /\ Finish("caught", "TypeError")
                /\ UNCHANGED <<nextPage, unsummarizedIds>>
           ELSE /\ unsummarizedIds' =
                      unsummarizedIds \o CollectIds(r.body.items, CONFIG.SUMMARY_MARKER)
                /\ pc' = "sLoop"
                /\ nextPage' = IF r.body.next = <<>> THEN nextPage ELSE r.body.next
                /\ UNCHANGED <<cur, done>>
    /\ UNCHANGED <<world, docs, files, plan, idx, content, summary, cleanLocals>>

\* processDocumentPages: the response of a page, the loop over its results, next
ScanResponse ==
    /\ pc = "sScanAwait"
    /\ \E r \in ListingOutcomes(Awaited.url) :
        /\ reqLog' = Settled(r.status)
        /\ faults' = IF r.fault THEN faults + 1 ELSE faults
        /\ IF r.status # "ok"
           THEN /\ Finish("caught", IF r.status = "fail" THEN "RequestError" ELSE "SyntaxError")
                /\ UNCHANGED <<nextPage, unsummarizedIds>>
           ELSE IF r.body.results = "missing"
           THEN /\ pc' = "sScanFetch"
                /\ UNCHANGED <<cur, done, nextPage, unsummarizedIds>>
           ELSE IF ScanThrows(r.body.items)
           THEN /\ Finish("caught", "TypeError")
                /\ UNCHANGED <<nextPage, unsummarizedIds>>
           ELSE /\ unsummarizedIds' =
                      unsummarizedIds \o CollectIds(r.body.items, CONFIG.SUMMARY_MARKER)
                /\ IF r.body.next = <<>>
                   THEN pc' = "sLoop" /\ nextPage' = nextPage
                   ELSE pc' = "sScanFetch" /\ nextPage' = r.body.next
                /\ UNCHANGED <<cur, done>>
    /\ UNCHANGED <<world, docs, files, plan, idx, content, summary, cleanLocals>>

\* main: fetchDocument for the next id of the scan's result
LoopFetch ==
    /\ pc = "sLoop"
    /\ idx <= Len(unsummarizedIds)
    /\ CanIssue(1)
    /\ reqLog' = Append(reqLog,
            Request("GET", DocumentUrl(EnvConfig.paperlessUrl, unsummarizedIds[idx]), <<>>))
    /\ pc' = "sDocAwait"
    /\ UNCHANGED <<world, docs, files, plan, done, cur, faults, sumLocals, cleanLocals>>

\* main: the for loop is over
MainReturn ==
    /\ pc = "sLoop"
    /\ idx > Len(unsummarizedIds)
    /\ reqLog' = reqLog
    /\ Finish("completed", "none")
    /\ UNCHANGED <<world, docs, files, plan, faults, sumLocals, cleanLocals>>

\* a loop without the try: a failed fetch or an empty content ends main
DocResponseUncaught ==
    /\ pc = "sDocAwait"
    /\ CanIssue(1)
    /\ \E r \in DocumentOutcomes(Awaited.url) :
        /\ faults' = IF r.fault THEN faults + 1 ELSE faults
        /\ content' = r.body
        /\ idx' = idx
        /\ IF r.status = "ok" /\ r.body # <<>>
           THEN /\ reqLog' = Append(Settled(r.status),
                                    Request("GENERATE", OllamaUrl, Prompt(r.body)))
                /\ pc' = "sGen"
                /\ UNCHANGED <<cur, done>>
           ELSE /\ reqLog' = Settled(r.status)
                /\ Finish("caught", "RequestError")
    /\ UNCHANGED <<world, docs, files, plan, nextPage, unsummarizedIds, summary,
                   cleanLocals>>

\* a loop that does not look at the content of the fetched document
DocResponseAnyContent ==
    /\ pc = "sDocAwait"
    /\ CanIssue(1)
    /\ \E r \in DocumentOutcomes(Awaited.url) :
        /\ faults' = IF r.fault THEN faults + 1 ELSE faults
        /\ IF r.status = "ok"
           THEN /\ content' = r.body
                /\ reqLog' = Append(Settled(r.status),
                                    Request("GENERATE", OllamaUrl, Prompt(r.body)))
                /\ pc' = "sGen"
                /\ idx' = idx
           ELSE /\ content' = r.body
                /\ reqLog' = Settled(r.status)
                /\ pc' = "sLoop"
                /\ idx' = idx + 1
    /\ UNCHANGED <<world, docs, files, plan, done, cur, nextPage, unsummarizedIds,
                   summary, cleanLocals>>

\* main: the fetched document, the content check, the call of ollama.generate
DocResponse ==
    /\ pc = "sDocAwait"
    /\ CanIssue(1)
    /\ \E r \in DocumentOutcomes(Awaited.url) :
        /\ faults' = IF r.fault THEN faults + 1 ELSE faults
        /\ IF r.status = "ok" /\ r.body # <<>>
           THEN /\ content' = r.body
                /\ reqLog' = Append(Settled(r.status),
                                    Request("GENERATE", OllamaUrl, Prompt(r.body)))
                /\ pc' = "sGen"
                /\ idx' = idx
           ELSE /\ content' = r.body
                /\ reqLog' = Settled(r.status)
                /\ pc' = "sLoop"
                /\ idx' = idx + 1
    /\ UNCHANGED <<world, docs, files, plan, done, cur, nextPage, unsummarizedIds,
                   summary, cleanLocals>>

\* summarizeText: the stream is read to its end; main: postComment
Generate ==
    /\ pc = "sGen"
    /\ CanIssue(1)
    /\ \E g \in GenerationOutcomes :
        /\ faults' = IF g.fault THEN faults + 1 ELSE faults
        /\ IF g.status = "ok"
           THEN /\ summary' = SummarizeText(g.body, FALSE).summarizedText
                /\ reqLog' = Append(Settled("ok"),
                      Request("POST",
                              NotesUrl(EnvConfig.paperlessUrl, unsummarizedIds[idx]),
                              ComposeNote(summary', CONFIG)))
                /\ pc' = "sPostAwait"
                /\ idx' = idx
           ELSE /\ summary' = summary
                /\ reqLog' = Settled("fail")
                /\ pc' = "sLoop"
                /\ idx' = idx + 1
    /\ UNCHANGED <<world, docs, files, plan, done, cur, nextPage, unsummarizedIds,
                   content, cleanLocals>>

\* main: the answer to the post, saveSummaryToFile, the next id
PostResponse ==
    /\ pc = "sPostAwait"
    /\ \E r \in WriteOutcomes, f \in FileOutcomes :
        /\ r.status # "ok" => f # "failed"
        /\ reqLog' = Settled(IF NotesIndex(Awaited.url) = 0 THEN "fail" ELSE r.status)
        /\ faults' = faults + (IF r.fault THEN 1 ELSE 0) + (IF f = "failed" THEN 1 ELSE 0)
        /\ IF r.status = "ok" /\ NotesIndex(Awaited.url) # 0
           THEN /\ docs' = StoreNote(NotesIndex(Awaited.url), Awaited.body)
                /\ files' = IF f = "written"
                            THEN {x \in files : x.id # unsummarizedIds[idx]}
                                 \cup {[id |-> unsummarizedIds[idx], text |-> summary]}
                            ELSE files
           ELSE UNCHANGED <<docs, files>>
    /\ pc' = "sLoop"
    /\ idx' = idx + 1
    /\ UNCHANGED <<world, plan, done, cur, nextPage, unsummarizedIds, content, summary,
                   cleanLocals>>

NextSum ==
    \/ SumStart
    \/ ScanFetch
    \/ ScanResponse
    \/ LoopFetch
    \/ MainReturn
    \/ DocResponse
    \/ Generate
    \/ PostResponse

----------------------------------------------------------------------------
(* The cleanup entry point *)

AllCommand == <<"a", "l", "l">>

\* new URL(s) accepts s
IsUrl(s) == s # <<>> /\ Head(s) \in {"http://", "https://"}

\* cleanupNotes.ts line 8: the check at module level throws
ArgsRejected(args) ==
    \/ Len(args) # 1
    \/ (args[1] # AllCommand /\ ParseInt(args[1]).nan)

\* main: the check of the document id throws
CommandRejected(command) ==
    /\ command # AllCommand
    /\ (ParseInt(command).nan \/ ParseInt(command).val <= 0)

\* a comparison of the whole text in place of includes
IsAiNoteExact(n, marker) == n.hasText /\ n.note = marker

\* all mode: typeof note.note === 'string' && note.note.includes(CONFIG.SUMMARY_MARKER)
IsAiNote(n, marker) == n.hasText /\ Includes(n.note, marker)

\* all mode: !d.id || !notes || !Array.isArray(d.notes)
IsInvalidDocument(d) == d.id = 0 \/ d.notes.kind # "array"

\* delete requests for every note, the filter left out
DeleteRequestsUnfiltered(baseUrl, id, items, marker) ==
    [i \in DOMAIN items |-> Request("DELETE", DeleteUrl(baseUrl, id, items[i].id), <<>>)]

\* the delete request of the first marked note only
DeleteRequestsFirstOnly(baseUrl, id, items, marker) ==
    LET marked == SelectSeq(items, LAMBDA n : IsAiNote(n, marker))
    IN  [i \in DOMAIN marked \cap {1} |->
            Request("DELETE", DeleteUrl(baseUrl, id, marked[i].id), <<>>)]

\* the delete requests of deleteComment for the marked notes of a document, in
\* the order of the notes
DeleteRequests(baseUrl, id, items, marker) ==
    LET marked == SelectSeq(items, LAMBDA n : IsAiNote(n, marker))
    IN  [i \in DOMAIN marked |-> Request("DELETE", DeleteUrl(baseUrl, id, marked[i].id), <<>>)]

\* single-document mode: note.note?.includes(CONFIG.SUMMARY_MARKER)
SingleDeleteRequests(baseUrl, id, items, marker) ==
    LET marked == SelectSeq(items, LAMBDA n : NoteHasMarker(n, marker))
    IN  [i \in DOMAIN marked |-> Request("DELETE", DeleteUrl(baseUrl, id, marked[i].id), <<>>)]

\* the document whose note a delete URL names, 0 if the service has no such note
DeleteTarget(u) ==
    IF \E d \in Docs : \E n \in NoteIds(docs[d].notes.items) : DeleteUrl(ServiceUrl, d, n) = u
    THEN CHOOSE d \in Docs :
            \E n \in NoteIds(docs[d].notes.items) : DeleteUrl(ServiceUrl, d, n) = u
    ELSE 0

DeletedNote(u) ==
    CHOOSE n \in NoteIds(docs[DeleteTarget(u)].notes.items) :
        DeleteUrl(ServiceUrl, DeleteTarget(u), n) = u

\* what a DELETE may answer: no such note is a non-success status
DeleteOutcomes(u) ==
    IF DeleteTarget(u) = 0 THEN {Outcome("fail", <<>>, FALSE)} ELSE WriteOutcomes

\* what the GET of a document's notes may answer
NotesOutcomes(u) ==
    (IF NotesIndex(u) # 0
     THEN {Outcome("ok", IF docs[NotesIndex(u)].notes.kind = "absent"
                         THEN ArrayNotes(<<>>) ELSE docs[NotesIndex(u)].notes, FALSE)}
     ELSE {Outcome("fail", AbsentNotes, FALSE)})
    \cup (IF CanFault /\ NotesIndex(u) # 0 THEN {Outcome("fail", AbsentNotes, TRUE)} ELSE {})

\* all mode: the listing request may also be cancelled by the 30 s timer
CleanListingOutcomes(u) ==
    ListingOutcomes(u)
    \cup (IF CanFault /\ PageIndex(u) # 0 THEN {Outcome("timeout", EmptyPage, TRUE)} ELSE {})

StartOutcome(pcv, exit, err) == [pc |-> pcv, exit |-> exit, err |-> err]

\* node cleanupNotes <args>: the check at module level, main up to the mode
CleanStartOutcome(args) ==
    IF ArgsRejected(args) THEN StartOutcome("idle", "uncaught", "UsageError")
    ELSE IF EnvInvalid THEN StartOutcome("idle", "caught", "ConfigurationError")
    ELSE IF ~IsUrl(EnvConfig.paperlessUrl)
         THEN StartOutcome("idle", "caught", "ConfigurationError")
    ELSE IF CommandRejected(args[1]) THEN StartOutcome("idle", "caught", "UsageError")
    ELSE IF args[1] = AllCommand
         THEN (IF CONFIG.SUMMARY_MARKER = <<>>
               THEN StartOutcome("idle", "caught", "MarkerError")
               ELSE StartOutcome("cFetch", "none", "none"))
    ELSE StartOutcome("dFetch", "none", "none")

CleanStart ==
    /\ pc = "idle"
    /\ plan # <<>>
    /\ Head(plan).prog = "cleanup"
    /\ plan' = Tail(plan)
    /\ reqLog' = <<>>
    /\ page' = EmptyPage
    /\ di' = 1
    /\ LET o == CleanStartOutcome(Head(plan).args)
       IN  /\ pc' = o.pc
           /\ cur' = IF o.pc = "idle" THEN NoRun ELSE Head(plan)
           /\ done' = IF o.pc = "idle"
                      THEN Append(done, [prog |-> "cleanup", args |-> Head(plan).args,
                                         exit |-> o.exit, err |-> o.err, log |-> <<>>])
                      ELSE done
           /\ nextPage' = IF o.pc = "cFetch" THEN SeedUrl(EnvConfig.paperlessUrl) ELSE <<>>
           /\ documentId' = IF o.pc = "dFetch" THEN ParseInt(Head(plan).args[1]).val ELSE 0
    /\ UNCHANGED <<world, docs, files, faults, unsummarizedIds, idx, content, summary>>

\* findAndDeleteSummaries: fetch(nextPage, {headers, signal})
CleanFetch ==
    /\ pc = "cFetch"
    /\ CanIssue(1)
    /\ reqLog' = Append(reqLog, Request("GET", nextPage, <<>>))
    /\ pc' = "cAwaitPage"
    /\ UNCHANGED <<world, docs, files, plan, done, cur, faults, sumLocals, cleanLocals>>

\* a crawl that takes a failed page request like a cancelled one
CleanPageResponseRetries ==
    /\ pc = "cAwaitPage"
    /\ \E r \in CleanListingOutcomes(Awaited.url) :
        /\ reqLog' = Settled(r.status)
        /\ faults' = IF r.fault THEN faults + 1 ELSE faults
        /\ IF r.status \in {"timeout", "fail"}
           THEN pc' = "cFetch" /\ UNCHANGED <<cur, done, page, di>>
           ELSE IF r.status = "badjson"
           THEN Finish("completed", "none") /\ UNCHANGED <<page, di>>
           ELSE IF r.body.results # "array"
           THEN pc' = "cFetch" /\ UNCHANGED <<cur, done, page, di>>
           ELSE /\ page' = r.body
                /\ di' = 1
                /\ pc' = "cDoc"
                /\ UNCHANGED <<cur, done>>
    /\ UNCHANGED <<world, docs, files, plan, sumLocals, documentId>>

\* findAndDeleteSummaries: the response of a page, up to the loop over its results
CleanPageResponse ==
    /\ pc = "cAwaitPage"
    /\ \E r \in CleanListingOutcomes(Awaited.url) :
        /\ reqLog' = Settled(r.status)
        /\ faults' = IF r.fault THEN faults + 1 ELSE faults
        /\ IF r.status = "timeout"
           THEN pc' = "cFetch" /\ UNCHANGED <<cur, done, page, di>>
           ELSE IF r.status = "fail"
           THEN Finish("caught", "RequestError") /\ UNCHANGED <<page, di>>
           ELSE IF r.status = "badjson"
           THEN Finish("completed", "none") /\ UNCHANGED <<page, di>>
           ELSE IF r.body.results # "array"
           THEN pc' = "cFetch" /\ UNCHANGED <<cur, done, page, di>>
           ELSE /\ page' = r.body
                /\ di' = 1
                /\ pc' = "cDoc"
                /\ UNCHANGED <<cur, done>>
    /\ UNCHANGED <<world, docs, files, plan, sumLocals, documentId>>

\* findAndDeleteSummaries: the next document of the page: skipped, or its
\* marked notes' deletes are all issued and awaited together
CleanDocument ==
    /\ pc = "cDoc"
    /\ di <= Len(page.items)
    /\ LET d == page.items[di]
           reqs == IF IsInvalidDocument(d) THEN <<>>
                   ELSE DeleteRequests(EnvConfig.paperlessUrl, d.id, d.notes.items,
                                       CONFIG.SUMMARY_MARKER)
       IN  /\ CanIssue(Len(reqs))
           /\ reqLog' = reqLog \o reqs
           /\ IF reqs = <<>>
              THEN pc' = "cDoc" /\ di' = di + 1
              ELSE pc' = "cSettle" /\ di' = di
    /\ UNCHANGED <<world, docs, files, plan, done, cur, faults, sumLocals, page, documentId>>

\* a group of deletes whose first failure rejects the awaited promise
CleanSettleRaises ==
    /\ pc = "cSettle"
    /\ \E i \in Pending : \E r \in DeleteOutcomes(reqLog[i].url) :
        /\ reqLog' = [reqLog EXCEPT ![i].status = r.status]
        /\ faults' = IF r.fault THEN faults + 1 ELSE faults
        /\ docs' = IF r.status = "ok"
                   THEN RemoveNote(DeleteTarget(reqLog[i].url), DeletedNote(reqLog[i].url))
                   ELSE docs
        /\ IF r.status # "ok"
           THEN Finish("caught", "RequestError") /\ di' = di
           ELSE IF Pending = {i}
           THEN pc' = "cDoc" /\ di' = di + 1 /\ UNCHANGED <<cur, done>>
           ELSE pc' = "cSettle" /\ di' = di /\ UNCHANGED <<cur, done>>
    /\ UNCHANGED <<world, files, plan, sumLocals, page, documentId>>

\* a group of deletes left as soon as its first delete settles
CleanSettleFirst ==
    /\ pc = "cSettle"
    /\ \E i \in Pending : \E r \in DeleteOutcomes(reqLog[i].url) :
        /\ reqLog' = [reqLog EXCEPT ![i].status = r.status]
        /\ faults' = IF r.fault THEN faults + 1 ELSE faults
        /\ docs' = IF r.status = "ok"
                   THEN RemoveNote(DeleteTarget(reqLog[i].url), DeletedNote(reqLog[i].url))
                   ELSE docs
        /\ pc' = "cDoc"
        /\ di' = di + 1
    /\ UNCHANGED <<world, files, plan, done, cur, sumLocals, page, documentId>>

\* findAndDeleteSummaries: one delete of the awaited group settles
CleanSettle ==
    /\ pc = "cSettle"
    /\ \E i \in Pending : \E r \in DeleteOutcomes(reqLog[i].url) :
        /\ reqLog' = [reqLog EXCEPT ![i].status = r.status]
        /\ faults' = IF r.fault THEN faults + 1 ELSE faults
        /\ docs' = IF r.status = "ok"
                   THEN RemoveNote(DeleteTarget(reqLog[i].url), DeletedNote(reqLog[i].url))
                   ELSE docs
        /\ IF Pending = {i}
           THEN pc' = "cDoc" /\ di' = di + 1
           ELSE pc' = "cSettle" /\ di' = di
    /\ UNCHANGED <<world, files, plan, done, cur, sumLocals, page, documentId>>

\* the end of a page that follows whatever next names
CleanPageEndFollowsAny ==
    /\ pc = "cDoc"
    /\ di > Len(page.items)
    /\ nextPage' = page.next
    /\ reqLog' = reqLog
    /\ IF page.next # <<>>
       THEN pc' = "cFetch" /\ UNCHANGED <<cur, done>>
       ELSE Finish("completed", "none")
    /\ UNCHANGED <<world, docs, files, plan, faults, unsummarizedIds, idx, content,
                   summary, cleanLocals>>

\* findAndDeleteSummaries: after the last document of the page: next
CleanPageEnd ==
    /\ pc = "cDoc"
    /\ di > Len(page.items)
    /\ nextPage' = page.next
    /\ reqLog' = reqLog
    /\ IF page.next # <<>> /\ StartsWith(page.next, EnvConfig.paperlessUrl)
       THEN pc' = "cFetch" /\ UNCHANGED <<cur, done>>
       ELSE Finish("completed", "none")
    /\ UNCHANGED <<world, docs, files, plan, faults, unsummarizedIds, idx, content,
                   summary, cleanLocals>>

\* deleteAiNotesAtDocument: fetchDocument of the document's notes
SingleFetch ==
    /\ pc = "dFetch"
    /\ CanIssue(1)
    /\ reqLog' = Append(reqLog,
                        Request("GET", NotesUrl(EnvConfig.paperlessUrl, documentId), <<>>))
    /\ pc' = "dAwaitNotes"
    /\ UNCHANGED <<world, docs, files, plan, done, cur, faults, sumLocals, cleanLocals>>

\* deleteAiNotesAtDocument: the notes, the deletes of the marked ones
SingleNotesResponse ==
    /\ pc = "dAwaitNotes"
    /\ \E r \in NotesOutcomes(Awaited.url) :
        LET reqs == IF r.status = "ok" /\ r.body.kind = "array"
                    THEN SingleDeleteRequests(EnvConfig.paperlessUrl, documentId,
                                              r.body.items, CONFIG.SUMMARY_MARKER)
                    ELSE <<>>
        IN  /\ CanIssue(Len(reqs))
            /\ reqLog' = Settled(r.status) \o reqs
            /\ faults' = IF r.fault THEN faults + 1 ELSE faults
            /\ IF r.status # "ok" THEN Finish("completed", "none")
               ELSE IF r.body.kind # "array" THEN Finish("caught", "FormatError")
               ELSE IF reqs = <<>> THEN Finish("completed", "none")
               ELSE pc' = "dSettle" /\ UNCHANGED <<cur, done>>
    /\ UNCHANGED <<world, docs, files, plan, sumLocals, cleanLocals>>

\* deleteAiNotesAtDocument: one delete of the awaited group settles
SingleSettle ==
    /\ pc = "dSettle"
    /\ \E i \in Pending : \E r \in DeleteOutcomes(reqLog[i].url) :
        /\ reqLog' = [reqLog EXCEPT ![i].status = r.status]
        /\ faults' = IF r.fault THEN faults + 1 ELSE faults
        /\ docs' = IF r.status = "ok"
                   THEN RemoveNote(DeleteTarget(reqLog[i].url), DeletedNote(reqLog[i].url))
                   ELSE docs
        /\ IF Pending = {i}
           THEN Finish("completed", "none")
           ELSE pc' = "dSettle" /\ UNCHANGED <<cur, done>>
    /\ UNCHANGED <<world, files, plan, sumLocals, cleanLocals>>

NextClean ==
    \/ CleanStart
    \/ CleanFetch
    \/ CleanPageResponse
    \/ CleanDocument
    \/ CleanSettle
    \/ CleanPageEnd
    \/ SingleFetch
    \/ SingleNotesResponse
    \/ SingleSettle

----------------------------------------------------------------------------
(* Initial states: the environment, the service's documents, its listing *)

EnvDefault ==
    [PAPERLESS_TOKEN |-> <<"tok">>, PAPERLESS_URL |-> ServiceUrl,
     OUTPUT_TXT |-> <<"1">>, OUTPUT_PATH |-> Unset, MODEL_NAME |-> Unset,
     CONTEXT_LENGTH |-> Unset, SUMMARY_MARKER |-> Unset, SUMMARY_PROMPT |-> Unset]

\* a marker, a model name and a prompt with characters JSON escapes; no number
EnvCustom ==
    [EnvDefault EXCEPT !.SUMMARY_MARKER = <<"#", "\"">>, !.MODEL_NAME = <<"m", "\\">>,
                       !.SUMMARY_PROMPT = <<"Sum", "\n">>, !.CONTEXT_LENGTH = <<"x">>,
                       !.OUTPUT_TXT = Unset]

EnvEmptyMarker == [EnvDefault EXCEPT !.SUMMARY_MARKER = <<>>, !.OUTPUT_TXT = <<"0">>]

EnvNoToken == [EnvDefault EXCEPT !.PAPERLESS_TOKEN = Unset]

EnvNoUrl == [EnvDefault EXCEPT !.PAPERLESS_URL = <<>>]

PlainText == <<"x">>
MarkedText == <<"x", "AI_", "SUMMARY", "y">>
PartialText == <<"AI_">>

\* the notes a document may start with
NotesChoices ==
    {AbsentNotes, BadNotes, ArrayNotes(<<>>),
     ArrayNotes(<<NoTextNote(1), Note(2, PartialText)>>),
     ArrayNotes(<<Note(1, DefaultMarker), Note(2, PlainText), Note(3, MarkedText)>>)}

ContentOf(d) == <<"text", ToString(d)>>

\* documents with the given notes; the documents of noContent have no content
DocsWith(notes, noContent) ==
    [d \in Docs |-> [content |-> IF d \in noContent THEN <<>> ELSE ContentOf(d),
                     notes   |-> notes[d]]]

\* the ids in the order the listing gives them: descending
DescIds == [i \in 1..NumDocs |-> NumDocs + 1 - i]

\* the cut points of a sequence of length len into n pages
Cuts(n, len) ==
    {c \in [0..n -> 0..len] :
        /\ c[0] = 0
        /\ c[n] = len
        /\ \A i \in 1..n : c[i - 1] <= c[i]}

\* the pages of a chain P1 -> ... -> Pn over the entries, cut at c
Chain(entries, n, c) ==
    [k \in 1..n |->
        [results |-> "array",
         entries |-> SubSeq(entries, c[k - 1] + 1, c[k]),
         next    |-> IF k < n THEN PageUrl(k + 1) ELSE <<>>]]

Chains(entries) ==
    {Chain(entries, n, c) : <<n, c>> \in
        {nc \in UNION {{<<n, c>> : c \in Cuts(n, Len(entries))} : n \in 1..MaxPages} : TRUE}}

\* the listing of all documents, one page
OnePage == Chain(DescIds, 1, [i \in 0..1 |-> IF i = 0 THEN 0 ELSE NumDocs])

\* well-formed listings: all documents, none, a document listed twice, a
\* document without an id among them
PlainListings ==
    Chains(DescIds) \cup Chains(<<>>) \cup Chains(<<Head(DescIds)>> \o DescIds)
    \cup Chains(<<Head(DescIds), 0>> \o Tail(DescIds))

\* the documents one to a page, the last page taking the rest
LongChain ==
    Chain(DescIds, MaxPages,
          [i \in 0..MaxPages |-> IF i = MaxPages THEN NumDocs
                                 ELSE IF i < NumDocs THEN i ELSE NumDocs])

\* a page without results, a page whose next names another host
FaultyListings ==
    {[LongChain EXCEPT ![k].results = "missing"] : k \in DOMAIN LongChain}
    \cup {[LongChain EXCEPT ![k].next = ForeignUrl] : k \in DOMAIN LongChain}

Listings == PlainListings \cup FaultyListings

SumRun == [prog |-> "summarize", args |-> <<>>]

InitWith(envs, docsets, listings, plans, streamsets) ==
    /\ env \in envs
    /\ streams \in streamsets
    /\ docs \in docsets
    /\ listing \in listings
    /\ plan \in plans
    /\ files = {}
    /\ done = <<>>
    /\ cur = NoRun
    /\ pc = "idle"
    /\ reqLog = <<>>
    /\ faults = 0
    /\ nextPage = <<>>
    /\ unsummarizedIds = <<>>
    /\ idx = 1
    /\ content = <<>>
    /\ summary = <<>>
    /\ page = EmptyPage
    /\ di = 1
    /\ documentId = 0

AllNotes == {DocsWith(n, {}) : n \in [Docs -> NotesChoices]}

\* a few documents: without notes, all summarized, one without content
FewDocs ==
    {DocsWith([d \in Docs |-> ArrayNotes(<<>>)], {}),
     DocsWith([d \in Docs |-> IF d = 1 THEN ArrayNotes(<<Note(1, MarkedText)>>)
                              ELSE AbsentNotes], {}),
     DocsWith([d \in Docs |-> ArrayNotes(<<Note(1, PlainText)>>)], {NumDocs})}

\* every document with two notes that hold the marker and one that does not
ManyMarked ==
    {DocsWith([d \in Docs |-> ArrayNotes(<<Note(1, DefaultMarker), Note(2, PlainText),
                                           Note(3, MarkedText)>>)], {})}

\* the summarization is run, and run again
SumPlans == {<<SumRun, SumRun>>}

\* summarization runs: every choice of notes on a one-page listing, every
\* listing over a few documents, every environment over a few documents
InitSum ==
    \/ InitWith({EnvDefault}, AllNotes, {OnePage}, SumPlans, {{SummaryStream}})
    \/ InitWith({EnvDefault}, FewDocs, Listings, SumPlans, {{SummaryStream}})
    \/ InitWith({EnvCustom, EnvEmptyMarker, EnvNoToken, EnvNoUrl}, FewDocs, {OnePage},
                SumPlans, {{SummaryStream, RepeatStream}})

SpecSum == InitSum /\ [][NextSum]_vars

AllRun == [prog |-> "cleanup", args |-> <<AllCommand>>]
SingleRun(arg) == [prog |-> "cleanup", args |-> <<arg>>]

\* arguments the cleanup is started with: a document id, ids of no document,
\* and values that are no id
IdArgs == {<<ToString(d)>> : d \in Docs}
OddArgs == {<<"7">>, <<"-", "5">>, <<"0">>, <<"x">>, <<"1", "x">>, <<" ", "2">>}

\* the cleanup is run, and run again with the same argument
CleanPlans ==
    {<<AllRun, AllRun>>} \cup {<<SingleRun(a), SingleRun(a)>> : a \in IdArgs}

OddPlans ==
    {<<SingleRun(a), AllRun>> : a \in OddArgs}
    \cup {<<[prog |-> "cleanup", args |-> <<>>], AllRun>>,
          <<[prog |-> "cleanup", args |-> <<AllCommand, AllCommand>>], AllRun>>}

\* cleanup runs: every choice of notes on a one-page listing, every listing
\* over a few documents, every chain of pages over documents with several
\* marked notes, every environment and argument over a few documents
InitClean ==
    \/ InitWith({EnvDefault}, AllNotes, {OnePage},
                {<<AllRun, AllRun>>, <<SingleRun(<<"1">>), SingleRun(<<"1">>)>>}, {{}})
    \/ InitWith({EnvDefault}, ManyMarked, Chains(DescIds), {<<AllRun, AllRun>>}, {{}})
    \/ InitWith({EnvDefault}, FewDocs, Listings, {<<AllRun, AllRun>>}, {{}})
    \/ InitWith({EnvDefault}, FewDocs, {OnePage}, OddPlans, {{}})
    \/ InitWith({EnvCustom, EnvEmptyMarker, EnvNoToken, EnvNoUrl}, FewDocs, {OnePage},
                CleanPlans, {{}})

SpecClean == InitClean /\ [][NextClean]_vars

EnvEmptyToken == [EnvDefault EXCEPT !.PAPERLESS_TOKEN = <<>>]

EnvUnsetUrl == [EnvDefault EXCEPT !.PAPERLESS_URL = Unset]

\* the cleanup is started with any of the arguments, then the summarization
EntryPlans ==
    {<<SingleRun(a), SumRun>> : a \in IdArgs \cup OddArgs}
    \cup {<<AllRun, SumRun>>,
          <<[prog |-> "cleanup", args |-> <<>>], SumRun>>,
          <<[prog |-> "cleanup", args |-> <<AllCommand, AllCommand>>], SumRun>>}

\* both entry points under every environment and every argument, over a few
\* documents on one page
InitEntry ==
    InitWith({EnvDefault, EnvNoToken, EnvEmptyToken, EnvNoUrl, EnvUnsetUrl}, FewDocs,
             {OnePage}, EntryPlans, {{SummaryStream}})

NextEntry == NextSum \/ NextClean

SpecEntry == InitEntry /\ [][NextEntry]_vars

\* the summarization, then the cleanup of all documents or of one document
RoundPlans == {<<SumRun, AllRun>>} \cup {<<SumRun, SingleRun(a)>> : a \in IdArgs}

\* a summarization followed by a cleanup: every chain of pages over a few
\* documents, and every marker over a few documents on one page
InitRound ==
    \/ InitWith({EnvDefault}, FewDocs, Chains(DescIds), RoundPlans, {{SummaryStream}})
    \/ InitWith({EnvCustom, EnvEmptyMarker}, FewDocs, {OnePage}, RoundPlans,
                {{SummaryStream}})

SpecRound == InitRound /\ [][NextEntry]_vars

----------------------------------------------------------------------------
(* summarizeText called on its own, with and without display *)

MaxChunks == 3

\* the responses a part of the stream may carry, the empty text among them
PartResponses == {<<"Sum">>, <<"mary">>, <<>>}

\* the streams of up to MaxChunks parts
ChunkStreams == UNION {[1..n -> PartResponses] : n \in 0..MaxChunks}

TextRun(display) == [prog |-> "summarizeText", args |-> <<ContentOf(1)>>, display |-> display]

\* summarizeText(text, display): ollama.generate answers with a stream or
\* throws; the call resolves to the text it read, standard output has the
\* parts it mirrored
TextCall ==
    /\ pc = "idle"
    /\ plan # <<>>
    /\ Head(plan).prog = "summarizeText"
    /\ plan' = Tail(plan)
    /\ \E g \in GenerationOutcomes :
        /\ faults' = IF g.fault THEN faults + 1 ELSE faults
        /\ LET r == SummarizeText(g.body, Head(plan).display)
           IN  done' = Append(done,
                    [prog |-> "summarizeText", args |-> Head(plan).args,
                     display |-> Head(plan).display, stream |-> g.body,
                     exit |-> IF g.status = "ok" THEN "completed" ELSE "rejected",
                     err |-> IF g.status = "ok" THEN "none" ELSE "RequestError",
                     log |-> <<[method |-> "GENERATE", url |-> OllamaUrl,
                                body |-> Prompt(Head(plan).args[1]), auth |-> FALSE,
                                status |-> g.status]>>,
                     returned |-> IF g.status = "ok" THEN r.summarizedText ELSE <<>>,
                     stdout |-> IF g.status = "ok" THEN r.stdout ELSE <<>>])
    /\ UNCHANGED <<world, docs, files, cur, pc, reqLog, sumLocals, cleanLocals>>

\* two calls of summarizeText, each with or without display, the model server
\* answering each with any of the streams
InitText ==
    InitWith({EnvDefault}, ManyMarked, {OnePage},
             {<<TextRun(a), TextRun(b)>> : a, b \in BOOLEAN}, {ChunkStreams})

SpecText == InitText /\ [][TextCall]_vars

----------------------------------------------------------------------------
(* Properties *)

\* the configured marker and the configured base URL
Marker == Coalesce(env.SUMMARY_MARKER, DefaultMarker)
BaseUrl == Coalesce(env.PAPERLESS_URL, <<>>)

\* text s holds m as a run of consecutive tokens
Contains(s, m) ==
    \E k \in 0..Len(s) :
        /\ k + Len(m) <= Len(s)
        /\ \A j \in 1..Len(m) : s[k + j] = m[j]

\* the notes hold a note whose text contains the marker
HasMarkerNote(notes) ==
    /\ notes.kind = "array"
    /\ \E i \in DOMAIN notes.items :
        notes.items[i].hasText /\ Contains(notes.items[i].note, Marker)

\* the notes are absent, or an array of notes none of which contains the marker
LacksMarkerNote(notes) ==
    \/ notes.kind = "absent"
    \/ /\ notes.kind = "array"
       /\ \A i \in DOMAIN notes.items :
            ~(notes.items[i].hasText /\ Contains(notes.items[i].note, Marker))

ListedIds == UNION {Range(listing[k].entries) : k \in DOMAIN listing} \ {0}

Scanning == pc \in {"sScanFetch", "sScanAwait"}
\* processDocumentPages has returned and the loop of main has not begun
ScanReturned == pc = "sLoop" /\ idx = 1

\* the requests of a log with the given method
Requests(log, method) == SelectSeq(log, LAMBDA r : r.method = method)
Urls(log) == [i \in DOMAIN log |-> log[i].url]
AllSucceeded(log) == \A i \in DOMAIN log : log[i].status = "ok"
NoneFailed(log) == \A i \in DOMAIN log : log[i].status \in {"ok", "pending"}
Last(q) == q[Len(q)]

\* C1: a document with a note whose text contains the marker is never in the
\* id list of the scan, whatever its other notes are
C1_MarkedNeverReturned ==
    (Scanning \/ ScanReturned) =>
        \A d \in Docs : HasMarkerNote(docs[d].notes) => d \notin Range(unsummarizedIds)

\* the scan has returned some ids, and left out a listed document whose marker
\* stands inside a longer text among other notes
C1_Witness ==
    /\ ScanReturned
    /\ unsummarizedIds # <<>>
    /\ \E d \in ListedIds :
        /\ HasMarkerNote(docs[d].notes)
        /\ \E i \in DOMAIN docs[d].notes.items : docs[d].notes.items[i].note = PlainText
        /\ \E i \in DOMAIN docs[d].notes.items : docs[d].notes.items[i].note = MarkedText

\* every page of the listing has been requested
CrawledToTheEnd ==
    \A k \in DOMAIN listing : \E i \in DOMAIN reqLog : reqLog[i].url = PageUrl(k)

\* C2: when the scan has crawled the listing to its end, every listed document
\* with an id that has no notes field, no notes, or only notes without the
\* marker is in the returned id list
C2_UnmarkedReturned ==
    (ScanReturned /\ CrawledToTheEnd) =>
        \A d \in ListedIds : LacksMarkerNote(docs[d].notes) => d \in Range(unsummarizedIds)

\* the scan returned a listed document without the notes field and one whose
\* notes all lack the marker
C2_Witness ==
    /\ ScanReturned
    /\ CrawledToTheEnd
    /\ \E d \in ListedIds : docs[d].notes.kind = "absent" /\ d \in Range(unsummarizedIds)
    /\ \E d \in ListedIds :
        /\ docs[d].notes.kind = "array"
        /\ docs[d].notes.items # <<>>
        /\ d \in Range(unsummarizedIds)

\* the listing is a chain P1 -> ... -> Pn of pages with results
IsChain ==
    \A k \in DOMAIN listing :
        /\ listing[k].results = "array"
        /\ listing[k].next = (IF k < Len(listing) THEN PageUrl(k + 1) ELSE <<>>)

\* the ids of the entries of page k that qualify, in the order of results
QualifyingIds(k) ==
    SelectSeq(listing[k].entries, LAMBDA e : e # 0 /\ LacksMarkerNote(docs[e].notes))

\* C3: over a chain of n pages with every request succeeding, the scan issues
\* the n listing requests in chain order from the seed URL, one per page, and
\* returns the qualifying ids page by page, in the order of results
C3_Pagination ==
    (IsChain /\ NoneFailed(reqLog)) =>
        /\ Scanning =>
            /\ Len(reqLog) <= Len(listing)
            /\ \A i \in DOMAIN reqLog : reqLog[i].url = PageUrl(i)
            /\ reqLog # <<>> => reqLog[1].url = BaseUrl \o <<"/documents/?ordering=-id">>
        /\ ScanReturned =>
            /\ Urls(reqLog) = [k \in DOMAIN listing |-> PageUrl(k)]
            /\ \A i \in DOMAIN reqLog : reqLog[i].method = "GET"
            /\ unsummarizedIds = Flatten([k \in DOMAIN listing |-> QualifyingIds(k)])

\* the scan returned ids of two pages over a chain of two or more pages
C3_Witness ==
    /\ ScanReturned
    /\ IsChain
    /\ AllSucceeded(reqLog)
    /\ Len(listing) >= 2
    /\ \A k \in DOMAIN listing : QualifyingIds(k) # <<>>
    /\ \E k \in DOMAIN listing : Len(listing[k].entries) >= 2

\* C4: the summarization scan never requests a URL that the base URL does not
\* prefix (the claim as stated; the scan follows any next)
C4_ScanStaysOnBase ==
    cur.prog = "summarize" =>
        \A i \in DOMAIN reqLog :
            reqLog[i].method = "GET" => StartsWith(reqLog[i].url, BaseUrl)


\* the end of a page whose next the base URL does not prefix
AtForeignNext ==
    /\ pc = "cDoc"
    /\ di > Len(page.items)
    /\ page.next # <<>>
    /\ ~StartsWith(page.next, BaseUrl)

\* C5: in all-mode cleanup a next that the base URL does not prefix ends the
\* crawl at once: the step that reads it ends the process with no request
\* added, and no request ever goes to such a URL
C5_StopsAtForeignNext ==
    /\ [](cur.prog = "cleanup" =>
            \A i \in DOMAIN reqLog : StartsWith(reqLog[i].url, BaseUrl))
    /\ [][AtForeignNext => (pc' = "idle" /\ reqLog' = reqLog)]_vars

\* an all-mode run ended after the deletes of a page whose next names another
\* host, and pages of the listing were left unrequested
C5_Witness ==
    /\ done # <<>>
    /\ done[1].args = <<AllCommand>>
    /\ done[1].exit = "completed"
    /\ Requests(done[1].log, "DELETE") # <<>>
    /\ \E k \in DOMAIN listing :
        /\ listing[k].next = ForeignUrl
        /\ Last(Requests(done[1].log, "GET")).url = PageUrl(k)
        /\ Len(Requests(done[1].log, "GET")) = k

\* the body is text of length n, two newlines, Model-Configuration:, a JSON
\* object, a newline and the marker
HasNoteForm(b, n) ==
    /\ Len(b) >= n + 6 + Len(Marker)
    /\ SubSeq(b, n + 1, n + 3) = <<"\n", "\n", "Model-Configuration:">>
    /\ IsValidJson(SubSeq(b, n + 4, Len(b) - Len(Marker) - 1))
    /\ b[Len(b) - Len(Marker)] = "\n"
    /\ SubSeq(b, Len(b) - Len(Marker) + 1, Len(b)) = Marker

PostedIn(log) ==
    {d \in Docs : \E i \in DOMAIN log :
        /\ log[i].method = "POST"
        /\ log[i].url = NotesUrl(ServiceUrl, d)
        /\ log[i].status = "ok"}

\* the service still has every note the log posted to d
KeepsNotes(d, log) ==
    \A i \in DOMAIN log :
        (log[i].method = "POST" /\ log[i].url = NotesUrl(ServiceUrl, d) /\ log[i].status = "ok")
        => \E j \in DOMAIN docs[d].notes.items : docs[d].notes.items[j].note = log[i].body

\* the log holds a fetch, a generation or a post for d
HandlesDocument(log, d) ==
    \E i \in DOMAIN log :
        \/ log[i].url = DocumentUrl(ServiceUrl, d)
        \/ log[i].url = NotesUrl(ServiceUrl, d)
        \/ (log[i].method = "GENERATE" /\ log[i].body = Prompt(docs[d].content))

\* the second run is under way or over
InSecondRun == (Len(done) = 1 /\ cur.prog # "none") \/ Len(done) = 2

\* C7: a document for which the first summarization run posted its note, the
\* service keeping it, is not returned by the scan of the second run, which
\* issues no fetch, generation or post for it
C7_RerunSkipsSummarized ==
    (InSecondRun /\ done[1].prog = "summarize") =>
        \A d \in PostedIn(done[1].log) :
            KeepsNotes(d, done[1].log) =>
                /\ d \notin Range(unsummarizedIds)
                /\ ~HandlesDocument(reqLog, d)

\* the scan of the second run returned a document the first run failed on and
\* left out one the first run posted a note for
C7_Witness ==
    /\ Len(done) = 1
    /\ done[1].prog = "summarize"
    /\ ScanReturned
    /\ unsummarizedIds # <<>>
    /\ \E d \in PostedIn(done[1].log) : KeepsNotes(d, done[1].log) /\ d \in ListedIds

\* the first run was an all-mode cleanup that ran to its end
FirstAllCompleted ==
    /\ done # <<>>
    /\ done[1].prog = "cleanup"
    /\ done[1].args = <<AllCommand>>
    /\ done[1].exit = "completed"

\* the log of the second run, as far as it has come
SecondLog ==
    IF Len(done) >= 2 THEN done[2].log
    ELSE IF cur.prog # "none" THEN reqLog
    ELSE <<>>

\* the log holds an answered request of every page of the listing
CrawledAll(log) ==
    \A k \in DOMAIN listing :
        \E i \in DOMAIN log : log[i].url = PageUrl(k) /\ log[i].status = "ok"

MarkedNotes(items) ==
    SelectSeq(items, LAMBDA n : n.hasText /\ Contains(n.note, Marker))

\* one delete URL per note whose text contains the marker
ExpectedDeletes(id, items) ==
    [i \in DOMAIN MarkedNotes(items) |-> DeleteUrl(BaseUrl, id, MarkedNotes(items)[i].id)]

\* the requests a step adds to the log
NewRequests == SubSeq(reqLog', Len(reqLog) + 1, Len(reqLog'))

\* all mode turns to a document with an id and an array of notes
AtListedDocument ==
    /\ pc = "cDoc"
    /\ di <= Len(page.items)
    /\ page.items[di].id # 0
    /\ page.items[di].notes.kind = "array"

\* single-document mode obtains the notes of the document
AtFetchedNotes ==
    /\ pc = "dAwaitNotes"
    /\ reqLog'[Len(reqLog)].status = "ok"
    /\ docs[documentId].notes.kind # "bad"

\* C9: in both cleanup modes the deletes issued for a document whose notes
\* were obtained are one per note whose text contains the marker, none for
\* another note; no other step issues a delete
C9_DeletesExactlyMarked ==
    [][/\ AtListedDocument =>
            /\ Urls(NewRequests) =
                 ExpectedDeletes(page.items[di].id, page.items[di].notes.items)
            /\ \A i \in DOMAIN NewRequests : NewRequests[i].method = "DELETE"
       /\ AtFetchedNotes =>
            /\ Urls(NewRequests) = ExpectedDeletes(documentId, docs[documentId].notes.items)
            /\ \A i \in DOMAIN NewRequests : NewRequests[i].method = "DELETE"
       /\ ~(AtListedDocument \/ AtFetchedNotes) =>
            Len(Requests(reqLog', "DELETE")) <= Len(Requests(reqLog, "DELETE"))
      ]_vars

\* all mode awaits two deletes for a document that also has a note without
\* the marker
C9_Witness ==
    /\ pc = "cSettle"
    /\ Cardinality(Pending) = 2
    /\ Len(page.items[di].notes.items) = 3
    /\ \A i \in Pending : reqLog[i].method = "DELETE"

\* the single-document fetches of a log
DocumentFetches(log) ==
    LET targets == {DocumentUrl(BaseUrl, d) : d \in Docs}
    IN  SelectSeq(log, LAMBDA r : r.method = "GET" /\ r.url \in targets)

\* the ids of the scan's result the loop of main has come to
IdsReached ==
    IF pc = "sLoop" THEN idx - 1
    ELSE IF pc \in {"sDocAwait", "sGen", "sPostAwait"} THEN idx
    ELSE Len(unsummarizedIds)

\* C10: the loop of main fetches the document of every id of the scan's
\* result once, in crawl order, whatever happened to the ids before it; a
\* run that has fetched a document ends only by the loop's end
C10_FailureIsolation ==
    /\ (pc \in {"sLoop", "sDocAwait", "sGen", "sPostAwait"}
        \/ (pc = "idle" /\ done # <<>> /\ Last(done).prog = "summarize"
            /\ Last(done).exit = "completed"))
       => Urls(DocumentFetches(IF pc = "idle" THEN Last(done).log ELSE reqLog))
            = [i \in 1..IdsReached |-> DocumentUrl(BaseUrl, unsummarizedIds[i])]
    /\ \A r \in DOMAIN done :
        (done[r].prog = "summarize" /\ done[r].exit # "completed")
            => DocumentFetches(done[r].log) = <<>>

\* a run is over in which the fetch of one document failed and a later
\* document was fetched all the same
C10_Witness ==
    /\ pc = "idle"
    /\ done # <<>>
    /\ Last(done).prog = "summarize"
    /\ Last(done).exit = "completed"
    /\ \E i, j \in DOMAIN Last(done).log :
        /\ i < j
        /\ Last(done).log[i].method = "GET"
        /\ Last(done).log[i].status = "fail"
        /\ \E d \in Docs : Last(done).log[i].url = DocumentUrl(BaseUrl, d)
        /\ Last(done).log[j].method = "GET"
        /\ \E d \in Docs : Last(done).log[j].url = DocumentUrl(BaseUrl, d)

\* a request of a page of the listing
IsListingRequest(r) == r.method = "GET" /\ "/documents/?ordering=-id" \in Range(r.url)

\* a listing request of the log was answered with a non-success status
ListingFailed(log) ==
    \E i \in DOMAIN log : IsListingRequest(log[i]) /\ log[i].status = "fail"

\* C11: a summarization run in which a listing request failed ended there
\* with the request's error: its log holds listing requests only, the failed
\* one last, so no document was fetched, nothing generated and nothing posted
C11_ScanFailureAborts ==
    /\ cur.prog = "summarize" => ~ListingFailed(reqLog)
    /\ \A r \in DOMAIN done :
        (done[r].prog = "summarize" /\ ListingFailed(done[r].log)) =>
            /\ done[r].exit = "caught"
            /\ done[r].err = "RequestError"
            /\ \A i \in DOMAIN done[r].log : IsListingRequest(done[r].log[i])
            /\ Last(done[r].log).status = "fail"
            /\ \A i \in 1..(Len(done[r].log) - 1) : done[r].log[i].status # "fail"

\* the first run ended on the failed request of a later page, after a page
\* on which the scan had found unsummarized documents
C11_Witness ==
    /\ Len(done) = 1
    /\ pc = "idle"
    /\ done[1].prog = "summarize"
    /\ ListingFailed(done[1].log)
    /\ Len(done[1].log) >= 2
    /\ unsummarizedIds # <<>>

\* PAPERLESS_TOKEN or PAPERLESS_URL is unset or empty
RequiredMissing ==
    \/ env.PAPERLESS_TOKEN \in {Unset, <<>>}
    \/ env.PAPERLESS_URL \in {Unset, <<>>}

\* no run has issued a request
NoRequestEver ==
    /\ reqLog = <<>>
    /\ \A r \in DOMAIN done : done[r].log = <<>>

\* C12 as stated: with the token or the URL missing, every run of either
\* entry point ends with the configuration error and no request
C12_ConfigErrorAsStated ==
    RequiredMissing =>
        /\ NoRequestEver
        /\ cur.prog = "none"
        /\ \A r \in DOMAIN done :
            done[r].exit # "completed" /\ done[r].err = "ConfigurationError"

\* C12, amended: with the token or the URL missing no run of either entry
\* point issues a request; the summarization ends with the configuration
\* error, and so does the cleanup unless the check of its arguments at module
\* level, which comes first, has ended it with the usage error
C12_ConfigErrorBeforeFetch ==
    RequiredMissing =>
        /\ NoRequestEver
        /\ cur.prog = "none"
        /\ \A r \in DOMAIN done :
            /\ done[r].exit # "completed"
            /\ done[r].err =
                 IF done[r].prog = "cleanup" /\ ArgsRejected(done[r].args)
                 THEN "UsageError" ELSE "ConfigurationError"

\* with the token unset, the cleanup of all documents and then the
\* summarization have ended with the configuration error
C12_Witness ==
    /\ env.PAPERLESS_TOKEN = Unset
    /\ Len(done) = 2
    /\ done[1].prog = "cleanup"
    /\ done[1].args = <<AllCommand>>
    /\ done[1].err = "ConfigurationError"
    /\ done[2].prog = "summarize"
    /\ done[2].err = "ConfigurationError"
    /\ docs[1].notes.items # <<>>

\* the text is a decimal numeral of a positive integer and nothing else
IsPositiveInteger(a) ==
    /\ a # <<>>
    /\ \A i \in DOMAIN a : a[i] \in {"0", "1", "2", "3", "4", "5", "6", "7", "8", "9"}
    /\ \E i \in DOMAIN a : a[i] # "0"

\* the arguments are the one argument all or one positive integer, which
\* blanks may precede
ArgumentsValid(args) ==
    /\ Len(args) = 1
    /\ (args[1] = AllCommand \/ IsPositiveInteger(SkipSpace(args[1])))

\* C13: with the environment set, a cleanup started with anything but the one
\* argument all or a positive integer ends with the usage error and issues no
\* request
C13_ArgumentValidated ==
    ~RequiredMissing =>
        /\ (cur.prog = "cleanup" /\ ~ArgumentsValid(cur.args)) => reqLog = <<>>
        /\ \A r \in DOMAIN done :
            (done[r].prog = "cleanup" /\ ~ArgumentsValid(done[r].args)) =>
                /\ done[r].log = <<>>
                /\ done[r].err = "UsageError"

\* C14: a cleanup that rejected its argument with the usage error ended
\* through an uncaught error
C14_UsageErrorUncaught ==
    \A r \in DOMAIN done :
        (done[r].prog = "cleanup" /\ done[r].err = "UsageError") => done[r].exit = "uncaught"

\* C15: in all-mode cleanup a listing request cancelled by the timer does not
\* end the run, and the request that follows it is not the same request
\* again: the crawl has gone past the page
C15_TimeoutSkipsPage ==
    /\ \A r \in DOMAIN done :
        (done[r].log # <<>>) => Last(done[r].log).status # "timeout"
    /\ \A i \in DOMAIN reqLog :
        (reqLog[i].status = "timeout" /\ i < Len(reqLog)) =>
            reqLog[i + 1].url # reqLog[i].url

\* a delete of the log failed
DeleteFailed(log) ==
    \E i \in DOMAIN log : log[i].method = "DELETE" /\ log[i].status # "ok"
                          /\ log[i].status # "pending"

\* the step settles a delete of the awaited group with a failure
DeleteFails ==
    /\ pc \in {"cSettle", "dSettle"}
    /\ \E i \in Pending : reqLog'[i].status \notin {"ok", "pending"}

\* C16: in both cleanup modes the deletes of a document's marked notes are
\* all issued before any of them settles, so none waits on another's outcome;
\* a delete that fails withdraws no request, raises no error out of the run
\* (a run with a failed delete that ended in an error ended on a failed
\* listing request), and leaves all mode awaiting the rest of the group or
\* turning to the next document of the page
C16_DeleteFailureIsolated ==
    /\ [](\A r \in DOMAIN done :
            (done[r].prog = "cleanup" /\ DeleteFailed(done[r].log)
             /\ done[r].exit # "completed") =>
                (Last(done[r].log).method = "GET" /\ Last(done[r].log).status = "fail"))
    /\ [][DeleteFails =>
            /\ Len(reqLog') = Len(reqLog)
            /\ Cardinality({j \in Pending : reqLog'[j].status = "pending"})
                 = Cardinality(Pending) - 1
            /\ (pc = "cSettle" => pc' \in {"cSettle", "cDoc"})
            /\ (pc = "cSettle" /\ pc' = "cDoc") => di' = di + 1
            /\ (pc' = "idle" => Last(done').exit = "completed")
       ]_vars
    /\ [][(pc \in {"cDoc", "dAwaitNotes"} /\ pc' \in {"cSettle", "dSettle"}) =>
            /\ \A j \in DOMAIN NewRequests : NewRequests[j].status = "pending"
            /\ IF pc = "cDoc"
               THEN Urls(NewRequests) =
                      ExpectedDeletes(page.items[di].id, page.items[di].notes.items)
               ELSE Urls(NewRequests) =
                      ExpectedDeletes(documentId, docs[documentId].notes.items)
       ]_vars

\* an all-mode run is over in which the first delete of a document's group
\* failed, the second succeeded, and a later document's note was deleted
C16_Witness ==
    /\ done # <<>>
    /\ Last(done).args = <<AllCommand>>
    /\ Last(done).exit = "completed"
    /\ \E i \in DOMAIN Last(done).log :
        /\ i + 2 <= Len(Last(done).log)
        /\ Last(done).log[i].method = "DELETE"
        /\ Last(done).log[i].status = "fail"
        /\ Last(done).log[i + 1].method = "DELETE"
        /\ Last(done).log[i + 1].status = "ok"
        /\ \E j \in (i + 2)..Len(Last(done).log) : Last(done).log[j].method = "DELETE"

\* the URL of a single document: <base>/documents/<id>/
IsDocumentResource(u) ==
    /\ Len(u) = Len(BaseUrl) + 3
    /\ SubSeq(u, 1, Len(BaseUrl)) = BaseUrl
    /\ u[Len(BaseUrl) + 1] = "/documents/"
    /\ u[Len(BaseUrl) + 3] = "/"

\* the URL of a document's notes: <base>/documents/<id>/notes/
IsNotesResource(u) ==
    /\ Len(u) = Len(BaseUrl) + 3
    /\ SubSeq(u, 1, Len(BaseUrl)) = BaseUrl
    /\ u[Len(BaseUrl) + 1] = "/documents/"
    /\ u[Len(BaseUrl) + 3] = "/notes/"

\* the URL of one note of a document: <base>/documents/<id>/notes/?id=<noteId>
IsNoteResource(u) ==
    /\ Len(u) = Len(BaseUrl) + 5
    /\ IsNotesResource(SubSeq(u, 1, Len(BaseUrl) + 3))
    /\ u[Len(BaseUrl) + 4] = "?id="

\* the requests of a run of prog read the listing, a document or its notes,
\* post to a document's notes (the summarization only) or delete one of a
\* document's notes (the cleanup only); a generation goes to the model server
KeepsFrame(prog, log) ==
    \A i \in DOMAIN log :
        LET r == log[i]
        IN  \/ /\ r.method = "GET"
               /\ r.body = <<>>
               /\ \/ IsListingRequest(r)
                  \/ (prog = "summarize" /\ IsDocumentResource(r.url))
                  \/ (prog = "cleanup" /\ IsNotesResource(r.url))
            \/ r.method = "POST" /\ prog = "summarize" /\ IsNotesResource(r.url)
            \/ r.method = "DELETE" /\ prog = "cleanup" /\ IsNoteResource(r.url)
            \/ r.method = "GENERATE" /\ prog = "summarize" /\ r.url = OllamaUrl

\* C17: every request to the document service is a GET, a POST to a
\* document's notes or a DELETE of one of a document's notes, never a write
\* to a document; the summarization issues no DELETE, the cleanup no POST
C17_OnlyNotesWritten ==
    /\ cur.prog # "none" => KeepsFrame(cur.prog, reqLog)
    /\ \A r \in DOMAIN done : KeepsFrame(done[r].prog, done[r].log)

\* a cleanup that deleted a note and a summarization that posted one are over
C17_Witness ==
    /\ Len(done) = 2
    /\ \E i \in DOMAIN done[1].log :
        done[1].log[i].method = "DELETE" /\ done[1].log[i].status = "ok"
    /\ \E i \in DOMAIN done[2].log :
        done[2].log[i].method = "POST" /\ done[2].log[i].status = "ok"
    /\ \E i \in DOMAIN done[2].log :
        done[2].log[i].method = "GET" /\ IsDocumentResource(done[2].log[i].url)

\* the requests to the document service in flight
ServiceRequestsInFlight == {i \in Pending : reqLog[i].method # "GENERATE"}

\* C18: in the summarization and in single-document cleanup at most one
\* request to the document service is in flight
C18_OneAtATime ==
    (cur.prog = "summarize" \/ (cur.prog = "cleanup" /\ cur.args # <<AllCommand>>))
        => Cardinality(ServiceRequestsInFlight) <= 1

\* the step issues a listing request
IssuesListingRequest ==
    /\ Len(reqLog') = Len(reqLog) + 1
    /\ IsListingRequest(Last(reqLog'))

\* C19: in all-mode cleanup a listing request is issued only when every
\* delete issued before it has settled, with a success or with a failure, and
\* no delete is outstanding while a listing request is
C19_PageAwaitsDeletes ==
    /\ [](cur.args = <<AllCommand>> =>
            \A i, j \in Pending :
                reqLog[i].method = "GET" => reqLog[j].method # "DELETE")
    /\ [][(cur.args = <<AllCommand>> /\ IssuesListingRequest) =>
            \A i \in DOMAIN reqLog :
                reqLog[i].method = "DELETE" => reqLog[i].status # "pending"
       ]_vars

\* the second page is being requested after a page on which one delete of
\* a document's group failed and the other succeeded
C19_Witness ==
    /\ cur.args = <<AllCommand>>
    /\ pc = "cAwaitPage"
    /\ Awaited.url = PageUrl(2)
    /\ \E i, j \in DOMAIN reqLog :
        /\ reqLog[i].method = "DELETE" /\ reqLog[i].status = "fail"
        /\ reqLog[j].method = "DELETE" /\ reqLog[j].status = "ok"

\* the place of the latest listing request in the log
LatestListingRequest ==
    CHOOSE g \in DOMAIN reqLog :
        /\ reqLog[g].method = "GET"
        /\ \A j \in (g + 1)..Len(reqLog) : reqLog[j].method # "GET"

\* the delete URLs of the marked notes of all documents of the page
PageDeletes ==
    Flatten([k \in DOMAIN page.items |->
                IF page.items[k].id # 0 /\ page.items[k].notes.kind = "array"
                THEN ExpectedDeletes(page.items[k].id, page.items[k].notes.items)
                ELSE <<>>])

\* C20 as stated: while all mode awaits deletes, the deletes of the marked
\* notes of every document of the page have been issued
C20_PageDeletesTogether ==
    (cur.args = <<AllCommand>> /\ pc = "cSettle") =>
        Urls(SubSeq(reqLog, LatestListingRequest + 1, Len(reqLog))) = PageDeletes

\* the step of an all-mode run issues delete requests
IssuesDeletes ==
    /\ cur.args = <<AllCommand>>
    /\ Len(reqLog') > Len(reqLog)
    /\ Last(reqLog').method = "DELETE"

\* C20, amended: in all-mode cleanup the deletes of the marked notes of one
\* document are issued together, and only when every delete of the documents
\* before it has settled
C20_DocumentDeletesTogether ==
    [][IssuesDeletes =>
        /\ Pending = {}
        /\ Urls(NewRequests) =
             ExpectedDeletes(page.items[di].id, page.items[di].notes.items)
        /\ \A i \in DOMAIN NewRequests : NewRequests[i].status = "pending"
      ]_vars

\* the two deletes of the second document of a page are in flight, those of
\* the first document settled
C20_Witness ==
    /\ cur.args = <<AllCommand>>
    /\ pc = "cSettle"
    /\ di = 2
    /\ Cardinality(Pending) = 2
    /\ Len(Requests(reqLog, "DELETE")) = 4

\* C21: while every request of a crawl succeeds, also over a listing with a
\* page without results, no listing URL is requested a second time (the claim
\* as stated; a page without results is requested again)
C21_MalformedPageSkipped ==
    NoneFailed(reqLog) =>
        \A i, j \in DOMAIN reqLog :
            (i < j /\ IsListingRequest(reqLog[i]) /\ IsListingRequest(reqLog[j]))
                => reqLog[i].url # reqLog[j].url

\* a run of a crawl: the summarization, or the cleanup of all documents
IsCrawl(run) ==
    run.prog = "summarize" \/ (run.prog = "cleanup" /\ run.args = <<AllCommand>>)

\* C22: a crawl whose requests all succeeded, also one that listed a document
\* whose notes are present and no array, ran to its end: no error was raised
\* (the claim as stated; the scan raises a TypeError on such a document)
C22_BadNotesSkipped ==
    \A r \in DOMAIN done :
        (IsCrawl(done[r]) /\ done[r].log # <<>> /\ AllSucceeded(done[r].log))
            => (done[r].exit = "completed" /\ done[r].err = "none")

\* a run of the cleanup of all documents
IsAllRun(run) == run.prog = "cleanup" /\ run.args = <<AllCommand>>

\* C23: an all-mode cleanup in which a listing request was answered with a
\* failure ended there with the request's error raised out of the crawl: the
\* failed request is the last of its log, so no listing request and no delete
\* followed it
C23_ListingErrorFatal ==
    /\ IsAllRun(cur) => ~ListingFailed(reqLog)
    /\ \A r \in DOMAIN done :
        (IsAllRun(done[r]) /\ ListingFailed(done[r].log)) =>
            /\ done[r].exit = "caught"
            /\ done[r].err = "RequestError"
            /\ IsListingRequest(Last(done[r].log))
            /\ Last(done[r].log).status = "fail"
            /\ \A i \in 1..(Len(done[r].log) - 1) :
                done[r].log[i].status \notin {"fail", "pending"}
                \/ done[r].log[i].method = "DELETE"

\* an all-mode run ended on the failed request of the second page, after the
\* deletes of the first page's document
C23_Witness ==
    /\ done # <<>>
    /\ IsAllRun(done[1])
    /\ done[1].exit = "caught"
    /\ done[1].log # <<>>
    /\ Last(done[1].log).url = PageUrl(2)
    /\ Last(done[1].log).status = "fail"
    /\ Requests(done[1].log, "DELETE") # <<>>

\* the documents without content, the URLs they are fetched at and the URLs
\* notes are posted to them at
EmptyDocs == {d \in Docs : docs[d].content = <<>>}
EmptyFetchUrls == {DocumentUrl(BaseUrl, d) : d \in EmptyDocs}
EmptyNotesUrls == {NotesUrl(BaseUrl, d) : d \in EmptyDocs}

\* entry i of the log is the successful fetch of a document without content
FetchedEmpty(log, i) ==
    log[i].url \in EmptyFetchUrls /\ log[i].method = "GET" /\ log[i].status = "ok"

\* the log has no request to the notes of a document without content, and
\* the request after the fetch of such a document, if there is one, is the
\* fetch of the next document
SkipsEmpty(log) ==
    LET fetches == EmptyFetchUrls
        notes == EmptyNotesUrls
    IN  \A i \in DOMAIN log :
            /\ log[i].url \notin notes
            /\ (log[i].url \in fetches /\ log[i].status = "ok" /\ i < Len(log)) =>
                  (log[i + 1].method = "GET" /\ IsDocumentResource(log[i + 1].url))

\* C24: after the fetch of a document whose content is absent or empty the
\* run issues no generation and no post for it and writes no file for it; the
\* loop turns to the next id, the request that follows being the next fetch
C24_EmptyContentSkipped ==
    /\ pc \in {"sGen", "sPostAwait"} =>
        (content # <<>> /\ docs[unsummarizedIds[idx]].content # <<>>)
    /\ \A f \in files : docs[f.id].content # <<>>
    /\ cur.prog = "summarize" =>
        /\ SkipsEmpty(reqLog)
        /\ (reqLog # <<>> /\ FetchedEmpty(reqLog, Len(reqLog))) =>
              (pc = "sLoop" /\ idx >= 2
               /\ Last(reqLog).url = DocumentUrl(BaseUrl, unsummarizedIds[idx - 1]))
    /\ \A r \in DOMAIN done : done[r].prog = "summarize" => SkipsEmpty(done[r].log)

\* a run is over that fetched a document without content and went on to
\* fetch the next document, post its note and write its file
C24_Witness ==
    /\ done # <<>>
    /\ done[1].prog = "summarize"
    /\ done[1].exit = "completed"
    /\ files # {}
    /\ \E i \in DOMAIN done[1].log :
        /\ FetchedEmpty(done[1].log, i)
        /\ i < Len(done[1].log)
        /\ done[1].log[i + 1].status = "ok"
    /\ \E i \in DOMAIN done[1].log :
        done[1].log[i].method = "POST" /\ done[1].log[i].status = "ok"

RECURSIVE LengthBefore(_, _)
\* the length of the parts of the stream before part k, taken together
LengthBefore(stream, k) ==
    IF k <= 1 THEN 0 ELSE LengthBefore(stream, k - 1) + Len(stream[k - 1])

\* the text is the parts of the stream one after the other: every part
\* stands in it at the place the parts before it leave, and nothing else does
IsConcatenation(text, stream) ==
    /\ Len(text) = LengthBefore(stream, Len(stream) + 1)
    /\ \A k \in DOMAIN stream :
        SubSeq(text, LengthBefore(stream, k) + 1, LengthBefore(stream, k + 1)) = stream[k]

\* C25: summarizeText returns the parts of the stream concatenated in the
\* order of arrival, none dropped, moved or merged with an equal one, and
\* returns the same for the same stream with and without display, which
\* mirrors the same parts to standard output
C25_ChunksConcatenated ==
    \A r \in DOMAIN done :
        (done[r].prog = "summarizeText" /\ done[r].exit = "completed") =>
            /\ IsConcatenation(done[r].returned, done[r].stream)
            /\ done[r].stream = << <<"Sum">>, <<"mary">> >> =>
                   done[r].returned = <<"Sum", "mary">>
            /\ done[r].stdout = IF done[r].display THEN done[r].returned ELSE <<>>
            /\ \A q \in DOMAIN done :
                (done[q].exit = "completed" /\ done[q].stream = done[r].stream) =>
                    done[q].returned = done[r].returned

\* the same stream, with a part that repeats and an empty part, was read
\* with display and without
C25_Witness ==
    /\ Len(done) = 2
    /\ done[1].prog = "summarizeText"
    /\ done[1].exit = "completed"
    /\ done[2].exit = "completed"
    /\ done[1].display
    /\ ~done[2].display
    /\ done[1].stream = << <<"Sum">>, <<"Sum">>, <<>> >>
    /\ done[2].stream = done[1].stream
    /\ done[1].returned = <<"Sum", "Sum">>

\* the listing requests of the log come before all its other requests, and
\* the last of them was answered, by a page of the listing only by one
\* without next
ScanEndedFirst(log) ==
    LET others == {i \in DOMAIN log : ~IsListingRequest(log[i])}
    IN  others # {} =>
            LET f == CHOOSE i \in others : \A j \in others : i <= j
            IN  /\ f > 1
                /\ \A j \in f..Len(log) : j \in others
                /\ log[f - 1].status = "ok"
                /\ PageIndex(log[f - 1].url) # 0 =>
                      listing[PageIndex(log[f - 1].url)].next = <<>>

\* C26: a summarization run issues listing requests only until the scan has
\* obtained a page without next, and only then fetches, generates and posts;
\* while the scan runs the notes of the service do not change, and once the
\* loop runs the ids the scan returned do not change
C26_TwoPhase ==
    /\ [](/\ Scanning => \A i \in DOMAIN reqLog : IsListingRequest(reqLog[i])
          /\ cur.prog = "summarize" => ScanEndedFirst(reqLog)
          /\ \A r \in DOMAIN done :
                done[r].prog = "summarize" => ScanEndedFirst(done[r].log))
    /\ [][Scanning => docs' = docs]_vars
    /\ [][(pc \in {"sLoop", "sDocAwait", "sGen", "sPostAwait"} /\ pc' # "idle")
            => unsummarizedIds' = unsummarizedIds]_vars

\* a note is being posted after a scan over two pages, both of which listed
\* a document
C26_Witness ==
    /\ pc = "sPostAwait"
    /\ Len(listing) = 2
    /\ \A k \in DOMAIN listing : listing[k].entries # <<>>
    /\ Len(Requests(reqLog, "GET")) >= 3
    /\ IsListingRequest(reqLog[2])

\* a summarization whose requests all succeeded, then a cleanup whose
\* requests all succeeded, are over
RoundTripDone ==
    /\ Len(done) = 2
    /\ done[1].prog = "summarize"
    /\ AllSucceeded(done[1].log)
    /\ done[2].prog = "cleanup"
    /\ AllSucceeded(done[2].log)

\* the documents the cleanup was run for: all, or the one of its argument
CleanedDocs(run) ==
    IF run.args = <<AllCommand>> THEN Docs
    ELSE {d \in Docs : run.args = <<(<<ToString(d)>>)>>}

\* the successful posts of the log to the notes of d, and its successful
\* deletes of notes of d
PostsTo(log, d) ==
    SelectSeq(log, LAMBDA r : r.method = "POST" /\ r.status = "ok"
                              /\ r.url = NotesUrl(BaseUrl, d))
DeletesAt(log, d) ==
    SelectSeq(log, LAMBDA r : r.method = "DELETE" /\ r.status = "ok"
                              /\ IsNoteResource(r.url)
                              /\ SubSeq(r.url, 1, Len(BaseUrl) + 3) = NotesUrl(BaseUrl, d))

\* every note the summarization posted to a cleaned document is gone from
\* the service, one delete or more having been issued per post
PostedNotesDeleted ==
    \A d \in CleanedDocs(done[2]) :
        /\ Len(DeletesAt(done[2].log, d)) >= Len(PostsTo(done[1].log, d))
        /\ \A i \in DOMAIN PostsTo(done[1].log, d) :
            ~\E j \in DOMAIN docs[d].notes.items :
                docs[d].notes.items[j].note = PostsTo(done[1].log, d)[i].body

\* C27 as stated: after a summarization and a cleanup under one marker
\* configuration, all requests succeeding, no posted note is left
C27_RoundTripAsStated == RoundTripDone => PostedNotesDeleted

\* C27, amended: under a marker that is not empty, after a summarization and
\* a cleanup with all requests succeeding, every note the summarization
\* posted to a cleaned document was deleted; under the empty marker the
\* cleanup of all documents ends with the marker's error and deletes nothing
C27_RoundTripWithMarker ==
    RoundTripDone =>
        IF Marker = <<>> /\ done[2].args = <<AllCommand>>
        THEN done[2].err = "MarkerError" /\ done[2].log = <<>>
        ELSE done[2].exit = "completed" /\ PostedNotesDeleted

\* a summarization posted a note to each of two documents on two pages, and
\* the cleanup of all documents that followed deleted them
C27_Witness ==
    /\ RoundTripDone
    /\ Marker # <<>>
    /\ done[2].args = <<AllCommand>>
    /\ Len(listing) = 2
    /\ \A d \in Docs : Len(PostsTo(done[1].log, d)) = 1
    /\ \A d \in Docs : Len(DeletesAt(done[2].log, d)) >= 1

\* the posts of the log to the notes of d
PostsFor(log, d) ==
    SelectSeq(log, LAMBDA r : r.method = "POST" /\ r.url = NotesUrl(BaseUrl, d))

\* C28: a summarization run posts at most one note per document, also over
\* a listing that lists a document twice (the claim as stated; the scan
\* returns the id once per listing entry and the loop posts once per id)
C28_OnePostPerDocument ==
    /\ cur.prog = "summarize" => \A d \in Docs : Len(PostsFor(reqLog, d)) <= 1
    /\ \A r \in DOMAIN done :
        done[r].prog = "summarize" => \A d \in Docs : Len(PostsFor(done[r].log, d)) <= 1

\* C29: under the empty marker no cleanup, of all documents or of one,
\* issues a delete (the claim as stated; single-document cleanup deletes
\* every note that has a text)
C29_EmptyMarkerDeletesNothing ==
    Marker = <<>> =>
        /\ cur.prog = "cleanup" => Requests(reqLog, "DELETE") = <<>>
        /\ \A r \in DOMAIN done :
            done[r].prog = "cleanup" => Requests(done[r].log, "DELETE") = <<>>

====
